---- MODULE Spec2Model ----
(***************************************************************************)
(* Model of apps/bandwagon/views.py: the request handlers of the           *)
(* "collections" feature.                                                  *)
(*                                                                         *)
(*   Spec            the handlers that read or alter a collection, one     *)
(*                   whole request per step                                *)
(*   SpecVote        collection_vote requests running concurrently, one    *)
(*                   database operation per step                           *)
(*   SpecVoteSerial  the same requests, one at a time                      *)
(*   SpecFilter      collection_listing and CollectionFilter.filter        *)
(***************************************************************************)
EXTENDS Integers, Sequences, FiniteSets, TLC

VARIABLES colls, last, votes, votes0, nextPk, pc, req, cv, out, base, listing

vars == <<colls, last, votes, votes0, nextPk, pc, req, cv, out, base, listing>>

(***************************************************************************)
(* Identities, collections and request inputs                              *)
(***************************************************************************)
Anon == "anon"
Users == {"ann", "bob", "root"}
Admins == {"root"}
Requesters == Users \cup {Anon}

Slugs == {"c", "favorites"}
SPECIAL_SLUGS == {"favorites"}
Keys == {"ann"} \X Slugs
Usernames == {"ann"}

Addons == {"a1"}
Names == {"n1", "n2"}
COLLECTION_NORMAL == "normal"
COLLECTION_FEATURED == "featured"
COLLECTION_FAVORITES == "favorites"

Nil == [absent |-> TRUE]
NoColl == <<"-", "-">>
NoEvents == << >>

\* request.POST['id'] when the field is absent, is not a number, or names no
\* collection
MissingId == <<"missing", "-">>
JunkId == <<"junk", "-">>
UnknownId == <<"unknown", "-">>
PostedIds == Keys \cup {MissingId, JunkId, UnknownId}

\* request.POST['addon_id']: an add-on, or absent, not a number, no such add-on
PostedAddonIds == Addons \cup {"missing", "junk", "unknown"}

\* request.POST['sure']
PostedSure == {"absent", "0", "1"}

\* The contributor lists a ContributorsForm is posted with
PostedUsers == SUBSET {"bob"}

Methods == {"GET", "POST"}

\* An entry of a request's trace: the ownership check, a write, a log line.
Ev(kind, actor, action, target) == <<kind, actor, action, target>>

Exists(key) == key \in Keys /\ colls[key] # Nil

(***************************************************************************)
(* Collaborators whose code is outside views.py                            *)
(***************************************************************************)
\* acl.check_collection_ownership called without require_owner.
DefaultRequireOwner == FALSE

\* acl.check_collection_ownership(request, collection, require_owner)
check_collection_ownership(user, key, require_owner) ==
    /\ user # Anon
    /\ \/ user \in Admins
       \/ user = key[1]
       \/ ~require_owner /\ user \in colls[key].users

\* acl.action_allowed(request, 'Admin', '%')
action_allowed(user) == user \in Admins

\* get_object_or_404(Collection.objects, author__nickname=username, slug=slug)
get_object_or_404(username, slug) ==
    IF Exists(<<username, slug>>) THEN <<username, slug>> ELSE NoColl

\* request.amo_user.<slug>_collection(): the requester's own special collection
special_collection(user, slug) == get_object_or_404(user, slug)

\* Collection.add_addon / Collection.remove_addon
add_addon(c, addon) == [c EXCEPT !.addons = @ \cup {addon}]
remove_addon(c, addon) == [c EXCEPT !.addons = @ \ {addon}]

(***************************************************************************)
(* views.py                                                                *)
(***************************************************************************)
get_collection(user, username, slug) ==
    IF slug \in SPECIAL_SLUGS /\ user # Anon /\ user = username
    THEN special_collection(user, slug)
    ELSE get_object_or_404(username, slug)

\* The outcome of a request: the response, the collections afterwards, the
\* trace of what the request did, the page body.
Outcome(resp, cs, events, body) ==
    [resp |-> resp, colls |-> cs, events |-> events, body |-> body]

Reply(resp, events) == Outcome(resp, colls, events, {})

CheckEv(user, key, ok) ==
    Ev(IF ok THEN "check_ok" ELSE "check_fail", user, "-", <<key, "-">>)

change_addon_unchecked(user, key, action, addon_id, ajax) ==
    IF addon_id \in {"missing", "junk"}
    THEN Reply("BadRequest", NoEvents)
    ELSE IF addon_id \notin Addons
    THEN Reply("NotFound", NoEvents)
    ELSE Outcome(IF ajax THEN "RedirectAjaxList" ELSE "RedirectCollection",
                 [colls EXCEPT ![key] = IF action = "add"
                                         THEN add_addon(@, addon_id)
                                         ELSE remove_addon(@, addon_id)],
                 << Ev("change", user, action, <<key, addon_id>>),
                    Ev("log", user, action, <<key, addon_id>>) >>,
                 {})

change_addon(user, key, action, addon_id, ajax) ==
    IF ~check_collection_ownership(user, key, DefaultRequireOwner)
    THEN Reply("Forbidden", <<CheckEv(user, key, FALSE)>>)
    ELSE IF addon_id \in {"missing", "junk"}
    THEN Reply("BadRequest", <<CheckEv(user, key, TRUE)>>)
    ELSE IF addon_id \notin Addons
    THEN Reply("NotFound", <<CheckEv(user, key, TRUE)>>)
    ELSE Outcome(IF ajax THEN "RedirectAjaxList" ELSE "RedirectCollection",
                 [colls EXCEPT ![key] = IF action = "add"
                                         THEN add_addon(@, addon_id)
                                         ELSE remove_addon(@, addon_id)],
                 << CheckEv(user, key, TRUE),
                    Ev("change", user, action, <<key, addon_id>>),
                    Ev("log", user, action, <<key, addon_id>>) >>,
                 {})


\* amo.decorators.login_required / post_required: whether the request passes
login_required(user) == user # Anon
post_required(method) == method = "POST"

\* owner_required's test (the wrapper's if)
owner_required(user, key, require_owner) ==
    check_collection_ownership(user, key, require_owner)

collection_alter_view(user, method, username, slug, action, addon_id, ajax) ==
    LET key == get_collection(user, username, slug) IN
    IF ~login_required(user) THEN Reply("LoginRedirect", NoEvents)
    ELSE IF ~post_required(method) THEN Reply("MethodNotAllowed", NoEvents)
    ELSE IF key = NoColl THEN Reply("NotFound", NoEvents)
    ELSE change_addon(user, key, action, addon_id, ajax)

\* id: the posted collection id, here the collection's key, or MissingId,
\* JunkId, UnknownId
ajax_collection_alter_view(user, method, id, action, addon_id, ajax) ==
    IF ~login_required(user) THEN Reply("LoginRedirect", NoEvents)
    ELSE IF ~post_required(method) THEN Reply("MethodNotAllowed", NoEvents)
    ELSE IF id \in {MissingId, JunkId} THEN Reply("BadRequest", NoEvents)
    ELSE IF ~Exists(id) THEN Reply("NotFound", NoEvents)
    ELSE change_addon(user, id, action, addon_id, ajax)

\* valid: form.is_valid(); name: the posted metadata
edit_view(user, method, username, slug, valid, name) ==
    LET key == get_collection(user, username, slug) IN
    IF ~login_required(user) THEN Reply("LoginRedirect", NoEvents)
    ELSE IF key = NoColl THEN Reply("NotFound", NoEvents)
    ELSE IF ~owner_required(user, key, TRUE)
    THEN Reply("Forbidden", <<CheckEv(user, key, FALSE)>>)
    ELSE IF method = "POST" /\ valid
    THEN Outcome("RedirectCollection",
                 [colls EXCEPT ![key].name = name],
                 << CheckEv(user, key, TRUE),
                    Ev("change", user, "edited", <<key, "-">>),
                    Ev("log", user, "edited", <<key, "-">>) >>,
                 {})
    ELSE Outcome("Render", colls, <<CheckEv(user, key, TRUE)>>,
                 colls[key].addons)

\* valid: form.is_valid(); addons: the posted membership
edit_addons_view(user, method, username, slug, valid, addons) ==
    LET key == get_collection(user, username, slug) IN
    IF ~login_required(user) THEN Reply("LoginRedirect", NoEvents)
    ELSE IF key = NoColl THEN Reply("NotFound", NoEvents)
    ELSE IF ~owner_required(user, key, FALSE)
    THEN Reply("Forbidden", <<CheckEv(user, key, FALSE)>>)
    ELSE IF method = "POST" /\ valid
    THEN Outcome("RedirectCollection",
                 [colls EXCEPT ![key].addons = addons],
                 << CheckEv(user, key, TRUE),
                    Ev("change", user, "added add-ons", <<key, "-">>),
                    Ev("log", user, "added add-ons", <<key, "-">>) >>,
                 {})
    ELSE Outcome("Render", colls, <<CheckEv(user, key, TRUE)>>,
                 colls[key].addons)

\* admin_valid, type: the posted AdminForm; valid, users, new_owner: the
\* posted ContributorsForm
edit_contributors_view(user, method, username, slug, admin_valid, type, valid, users, new_owner) ==
    LET key == get_collection(user, username, slug)
        is_admin == action_allowed(user)
        c1 == IF method = "POST" /\ is_admin /\ admin_valid
              THEN [colls EXCEPT ![key].type = type] ELSE colls
        e1 == IF method = "POST" /\ is_admin /\ admin_valid
              THEN <<Ev("change", user, "admin", <<key, "-">>)>> ELSE << >>
    IN
    IF ~login_required(user) THEN Reply("LoginRedirect", NoEvents)
    ELSE IF key = NoColl THEN Reply("NotFound", NoEvents)
    ELSE IF ~owner_required(user, key, TRUE)
    THEN Reply("Forbidden", <<CheckEv(user, key, FALSE)>>)
    ELSE IF method = "POST" /\ valid
    THEN Outcome(IF new_owner THEN "RedirectCollection"
                              ELSE "RedirectEditContributors",
                 [c1 EXCEPT ![key].users = users],
                 <<CheckEv(user, key, TRUE)>> \o e1 \o
                 <<Ev("change", user, "contributors", <<key, "-">>)>>,
                 {})
    ELSE Outcome("Render", c1, <<CheckEv(user, key, TRUE)>> \o e1, {})

edit_privacy_view_silent(user, method, username, slug) ==
    LET key == get_collection(user, username, slug) IN
    IF ~login_required(user) THEN Reply("LoginRedirect", NoEvents)
    ELSE IF key = NoColl THEN Reply("NotFound", NoEvents)
    ELSE IF ~owner_required(user, key, TRUE)
    THEN Reply("Forbidden", <<CheckEv(user, key, FALSE)>>)
    ELSE IF ~post_required(method)
    THEN Reply("MethodNotAllowed", <<CheckEv(user, key, TRUE)>>)
    ELSE Outcome("RedirectCollection",
                 [colls EXCEPT ![key].listed = ~@],
                 << CheckEv(user, key, TRUE),
                    Ev("change", user, "changed privacy", <<key, "-">>) >>,
                 {})

edit_privacy_view(user, method, username, slug) ==
    LET key == get_collection(user, username, slug) IN
    IF ~login_required(user) THEN Reply("LoginRedirect", NoEvents)
    ELSE IF key = NoColl THEN Reply("NotFound", NoEvents)
    ELSE IF ~owner_required(user, key, TRUE)
    THEN Reply("Forbidden", <<CheckEv(user, key, FALSE)>>)
    ELSE IF ~post_required(method)
    THEN Reply("MethodNotAllowed", <<CheckEv(user, key, TRUE)>>)
    ELSE Outcome("RedirectCollection",
                 [colls EXCEPT ![key].listed = ~@],
                 << CheckEv(user, key, TRUE),
                    Ev("change", user, "changed privacy", <<key, "-">>),
                    Ev("log", user, "changed privacy", <<key, "-">>) >>,
                 {})

\* sure: request.POST['sure'], or "absent" when the body has no such field
delete_sure_present(sure) == sure # "absent"

delete_sure(sure) == sure = "1"

delete_view(user, method, username, slug, sure) ==
    LET key == get_object_or_404(username, slug) IN
    IF ~login_required(user) THEN Reply("LoginRedirect", NoEvents)
    ELSE IF key = NoColl THEN Reply("NotFound", NoEvents)
    ELSE IF ~check_collection_ownership(user, key, TRUE)
    THEN Reply("Forbidden",
               << CheckEv(user, key, FALSE),
                  Ev("log", user, "is trying to delete", <<key, "-">>) >>)
    ELSE IF method = "POST"
    THEN IF sure = "absent"
         THEN Reply("ServerError", <<CheckEv(user, key, TRUE)>>)
         ELSE IF delete_sure(sure)
         THEN Outcome("RedirectUserListing",
                      [colls EXCEPT ![key] = Nil],
                      << CheckEv(user, key, TRUE),
                         Ev("change", user, "deleted", <<key, "-">>),
                         Ev("log", user, "deleted", <<key, "-">>) >>,
                      {})
         ELSE Reply("RedirectCollection", <<CheckEv(user, key, TRUE)>>)
    ELSE Outcome("Render", colls, <<CheckEv(user, key, TRUE)>>, {})

collection_detail_view_public(user, username, slug) ==
    LET c == get_collection(user, username, slug) IN
    IF c = NoColl THEN Reply("NotFound", NoEvents)
    ELSE Outcome("Render", colls, NoEvents, colls[c].addons)

collection_detail_view(user, username, slug) ==
    LET c == get_collection(user, username, slug) IN
    IF c = NoColl THEN Reply("NotFound", NoEvents)
    ELSE IF ~(colls[c].listed
              \/ check_collection_ownership(user, c, DefaultRequireOwner))
    THEN Reply("Forbidden", NoEvents)
    ELSE Outcome("Render", colls, NoEvents, colls[c].addons)


(***************************************************************************)
(* Spec: one request per step                                              *)
(***************************************************************************)
NoRequest ==
    [handler |-> "none", user |-> Anon, method |-> "GET", coll |-> NoColl,
     sure |-> "absent", resp |-> "none", events |-> NoEvents, body |-> {}]

\* The request is answered: the database and the record of the request.
\* Deleting a collection deletes its votes with it.
Done(handler, user, method, key, sure, o) ==
    /\ colls' = o.colls
    /\ votes' = {v \in votes : o.colls[v.coll] # Nil}
    /\ last' = [handler |-> handler, user |-> user, method |-> method,
                coll |-> key, sure |-> sure, resp |-> o.resp,
                events |-> o.events, body |-> o.body]
    /\ UNCHANGED <<votes0, nextPk, pc, req, cv, out, base, listing>>

\* A field of the request body: only a POST carries one
Posted(method, values, absent) == IF method = "POST" THEN values ELSE {absent}

\* The posted AdminForm and ContributorsForm
AdminPosts ==
    {[valid |-> FALSE, type |-> COLLECTION_NORMAL]} \cup
    {[valid |-> TRUE, type |-> t] :
        t \in {COLLECTION_NORMAL, COLLECTION_FEATURED}}

ContributorsPosts ==
    {[valid |-> FALSE, users |-> {}, new_owner |-> FALSE]} \cup
    {[valid |-> TRUE, users |-> u, new_owner |-> n] :
        u \in PostedUsers, n \in BOOLEAN}

collection_alter ==
    \E user \in Requesters, method \in Methods, username \in Usernames,
       slug \in Slugs, action \in {"add", "remove"}, ajax \in BOOLEAN :
    \E addon_id \in Posted(method, PostedAddonIds, "missing") :
        Done("collection_alter", user, method,
             get_object_or_404(username, slug), "absent",
             collection_alter_view(user, method, username, slug, action,
                                   addon_id, ajax))

ajax_collection_alter ==
    \E user \in Requesters, method \in Methods,
       action \in {"add", "remove"}, ajax \in BOOLEAN :
    \E id \in Posted(method, PostedIds, MissingId),
       addon_id \in Posted(method, PostedAddonIds, "missing") :
        Done("ajax_collection_alter", user, method,
             IF Exists(id) THEN id ELSE NoColl, "absent",
             ajax_collection_alter_view(user, method, id, action, addon_id,
                                        ajax))

edit ==
    \E user \in Requesters, method \in Methods, username \in Usernames,
       slug \in Slugs :
    \E valid \in Posted(method, BOOLEAN, FALSE),
       name \in Posted(method, Names, "n1") :
        Done("edit", user, method, get_object_or_404(username, slug),
             "absent", edit_view(user, method, username, slug, valid, name))

edit_addons ==
    \E user \in Requesters, method \in Methods, username \in Usernames,
       slug \in Slugs :
    \E valid \in Posted(method, BOOLEAN, FALSE),
       addons \in Posted(method, SUBSET Addons, {}) :
        Done("edit_addons", user, method, get_object_or_404(username, slug),
             "absent",
             edit_addons_view(user, method, username, slug, valid, addons))

edit_contributors ==
    \E user \in Requesters, method \in Methods, username \in Usernames,
       slug \in Slugs :
    \E a \in Posted(method, AdminPosts, [valid |-> FALSE,
                                         type |-> COLLECTION_NORMAL]),
       f \in Posted(method, ContributorsPosts,
                    [valid |-> FALSE, users |-> {}, new_owner |-> FALSE]) :
        Done("edit_contributors", user, method,
             get_object_or_404(username, slug), "absent",
             edit_contributors_view(user, method, username, slug,
                                    a.valid, a.type, f.valid, f.users,
                                    f.new_owner))

edit_privacy ==
    \E user \in Requesters, method \in Methods, username \in Usernames,
       slug \in Slugs :
        Done("edit_privacy", user, method, get_object_or_404(username, slug),
             "absent", edit_privacy_view(user, method, username, slug))

delete ==
    \E user \in Requesters, method \in Methods, username \in Usernames,
       slug \in Slugs :
    \E sure \in Posted(method, PostedSure, "absent") :
        Done("delete", user, method, get_object_or_404(username, slug), sure,
             delete_view(user, method, username, slug, sure))

collection_detail ==
    \E user \in Requesters, username \in Usernames, slug \in Slugs :
        Done("collection_detail", user, "GET",
             get_object_or_404(username, slug), "absent",
             collection_detail_view(user, username, slug))

Collection(listed, type) ==
    [listed |-> listed, addons |-> {}, users |-> {}, type |-> type,
     name |-> "n1"]

Vote(pk, user, key, vote) ==
    [pk |-> pk, user |-> user, coll |-> key, vote |-> vote]

Idle == [p \in {} |-> "idle"]

Init ==
    /\ \E only \in Keys :
          /\ colls = [k \in Keys |->
                         IF k # only THEN Nil
                         ELSE IF k[2] \in SPECIAL_SLUGS
                         THEN Collection(FALSE, COLLECTION_FAVORITES)
                         ELSE Collection(TRUE, COLLECTION_NORMAL)]
          /\ votes = {Vote(1, "bob", only, 1)}
          /\ votes0 = votes
    /\ nextPk = 2
    /\ last = NoRequest
    /\ pc = Idle /\ req = Idle /\ cv = Idle /\ out = Idle
    /\ base = << >> /\ listing = << >>

Next ==
    \/ collection_alter
    \/ ajax_collection_alter
    \/ edit
    \/ edit_addons
    \/ edit_contributors
    \/ edit_privacy
    \/ delete
    \/ collection_detail

Spec == Init /\ [][Next]_vars


(***************************************************************************)
(* collection_vote: one database operation per step                        *)
(***************************************************************************)
NProcs == 3
Procs == 1..NProcs
Voters == {"bob", Anon}

\* vote = {'up': 1, 'down': -1}[direction]
vote_value(direction) == IF direction = "up" THEN 1 ELSE -1

\* request.method != 'POST'
not_post_never(method) == FALSE

not_post(method) == method # "POST"

\* The rows of one (user, collection) pair
Rows(table, user, key) == {v \in table : v.user = user /\ v.coll = key}

\* Model.delete(): DELETE ... WHERE id = pk
delete_row(table, pk) == {v \in table : v.pk # pk}

\* Model.save() of a loaded object: UPDATE the row with this pk, INSERT it
\* when no row has it
save_row(table, row) == delete_row(table, row.pk) \cup {row}

NoVote == Vote(0, Anon, NoColl, 0)
NoReq == [user |-> Anon, slug |-> "-", direction |-> "up", method |-> "GET"]

Finish(p, request, resp) ==
    /\ pc' = [pc EXCEPT ![p] = "done"]
    /\ req' = [req EXCEPT ![p] = request]
    /\ out' = [out EXCEPT ![p] = resp]

\* Lines 185-193: the decorators, get_collection, the method test and
\* CollectionVote.objects.get_or_create, which is atomic.
vote_begin(p) ==
    /\ pc[p] = "idle"
    /\ \E user \in Voters, username \in Usernames, slug \in Slugs,
          direction \in {"up", "down"}, method \in Methods, ajax \in BOOLEAN :
        LET c == get_collection(user, username, slug)
            request == [user |-> user, slug |-> slug,
                        direction |-> direction, method |-> method]
            vote == vote_value(direction)
            rows == Rows(votes, user, c)
            answer == IF ajax THEN "OkEmpty" ELSE "RedirectCollection"
        IN
        IF ~login_required(user)
        THEN Finish(p, request, "LoginRedirect")
             /\ UNCHANGED <<votes, nextPk, cv>>
        ELSE IF c = NoColl
        THEN Finish(p, request, "NotFound") /\ UNCHANGED <<votes, nextPk, cv>>
        ELSE IF not_post(method)
        THEN Finish(p, request, "RedirectCollection")
             /\ UNCHANGED <<votes, nextPk, cv>>
        ELSE IF rows = {}
        THEN /\ votes' = votes \cup {Vote(nextPk, user, c, vote)}
             /\ nextPk' = nextPk + 1
             /\ Finish(p, request, answer)
             /\ UNCHANGED cv
        ELSE IF Cardinality(rows) > 1
        THEN Finish(p, request, "ServerError")
             /\ UNCHANGED <<votes, nextPk, cv>>
        ELSE /\ cv' = [cv EXCEPT ![p] = CHOOSE v \in rows : TRUE]
             /\ pc' = [pc EXCEPT ![p] = "voting"]
             /\ req' = [req EXCEPT ![p] = request]
             /\ UNCHANGED <<votes, nextPk, out>>
    /\ UNCHANGED <<colls, last, votes0, base, listing>>

\* Double vote => cancel.
double_vote_kept(row, vote) == FALSE

double_vote(row, vote) == row.vote = vote

\* Lines 195-205: the object read by get_or_create is deleted or saved.
vote_finish(p) ==
    /\ pc[p] = "voting"
    /\ \E ajax \in BOOLEAN :
        LET vote == vote_value(req[p].direction) IN
        /\ votes' = IF double_vote(cv[p], vote)
                    THEN delete_row(votes, cv[p].pk)
                    ELSE save_row(votes, [cv[p] EXCEPT !.vote = vote])
        /\ Finish(p, req[p], IF ajax THEN "OkEmpty" ELSE "RedirectCollection")
    /\ UNCHANGED <<colls, last, votes0, nextPk, cv, base, listing>>

InitVote ==
    /\ colls = [k \in Keys |->
                   IF k[2] \in SPECIAL_SLUGS THEN Nil
                   ELSE Collection(TRUE, COLLECTION_NORMAL)]
    /\ last = NoRequest
    /\ \E v \in {-1, 0, 1} :
          votes = {Vote(1, "ann", <<"ann", "c">>, 1)} \cup
                  IF v = 0 THEN {} ELSE {Vote(2, "bob", <<"ann", "c">>, v)}
    /\ votes0 = votes
    /\ nextPk = 3
    /\ pc = [p \in Procs |-> "idle"]
    /\ req = [p \in Procs |-> NoReq]
    /\ cv = [p \in Procs |-> NoVote]
    /\ out = [p \in Procs |-> "none"]
    /\ base = << >> /\ listing = << >>

NextVote == \E p \in Procs : vote_begin(p) \/ vote_finish(p)

SpecVote == InitVote /\ [][NextVote]_vars

\* One request at a time: a request starts when no other is under way.
NextVoteSerial ==
    \E p \in Procs :
        \/ vote_begin(p) /\ \A q \in Procs : pc[q] # "voting"
        \/ vote_finish(p)

SpecVoteSerial == InitVote /\ [][NextVoteSerial]_vars


(***************************************************************************)
(* Properties of collection_vote                                           *)
(***************************************************************************)
\* The vote of a pair: 1, -1, or 0 when it has no record
VoteState(table, user, key) ==
    IF Rows(table, user, key) = {} THEN 0
    ELSE (CHOOSE v \in Rows(table, user, key) : TRUE).vote

\* The vote state machine of the design document
Transition(state, direction) ==
    LET v == IF direction = "up" THEN 1 ELSE -1 IN
    IF state = 0 THEN v ELSE IF state = v THEN 0 ELSE v

Target(request) == <<"ann", request.slug>>

\* The request of p is a POST by a logged-in user on an existing collection
Effective(request) ==
    /\ request.method = "POST"
    /\ request.user # Anon
    /\ Exists(Target(request))

Completes(p) == pc[p] # "done" /\ pc'[p] = "done"

\* C1: with the requests handled one at a time, each POST by a logged-in
\* user moves the vote of its (user, collection) pair along the state
\* machine (none -> +1/-1, same direction again -> none, opposite direction
\* -> flipped), leaves at most one record for the pair, and nothing else
\* changes a vote.
C1_VoteTransitions ==
    [][ /\ \A p \in Procs :
             (Completes(p) /\ Effective(req'[p])) =>
                LET u == req'[p].user
                    k == Target(req'[p])
                IN /\ Cardinality(Rows(votes', u, k)) <= 1
                   /\ VoteState(votes', u, k) =
                         Transition(VoteState(votes, u, k), req'[p].direction)
                   /\ \A w \in votes \cup votes' :
                         (w.user # u \/ w.coll # k) =>
                            (w \in votes /\ w \in votes')
        /\ (votes' # votes) =>
              \E p \in Procs : Completes(p) /\ Effective(req'[p])
      ]_vars

\* C1 witness: a second "up" of bob cancelled the +1 it started with
C1_Witness ==
    /\ VoteState(votes0, "bob", <<"ann", "c">>) = 1
    /\ Rows(votes, "bob", <<"ann", "c">>) = {}
    /\ \E p \in Procs : /\ pc[p] = "done" /\ req[p].user = "bob"
                        /\ req[p].direction = "up" /\ req[p].method = "POST"
    /\ \A p \in Procs : pc[p] = "done" => req[p].direction = "up"

\* C2: under any interleaving of concurrent collection_vote requests, a
\* (user, collection) pair has at most one CollectionVote record.
C2_AtMostOneRecord ==
    \A u \in Users, k \in Keys : Cardinality(Rows(votes, u, k)) <= 1

\* C6 as stated: a non-POST request to collection_vote changes no vote
\* record and is answered with a redirect to the collection's page.
C6_GetRedirectsToCollection ==
    [][ \A p \in Procs :
          (Completes(p) /\ req'[p].method # "POST"
                        /\ Exists(Target(req'[p]))) =>
             /\ votes' = votes
             /\ out'[p] = "RedirectCollection"
      ]_vars

\* C6 amended: a non-POST request to collection_vote changes no vote record,
\* whoever sends it, and a logged-in user's is answered with a redirect to
\* the collection's page.
C6_GetIsNoOp ==
    [][ \A p \in Procs :
          (Completes(p) /\ req'[p].method # "POST") =>
             /\ votes' = votes
             /\ (req'[p].user # Anon /\ Exists(Target(req'[p]))) =>
                   out'[p] = "RedirectCollection"
      ]_vars

\* C6 witness: bob's GET was redirected and his vote is still there
C6_Witness ==
    /\ votes = votes0 /\ Rows(votes, "bob", <<"ann", "c">>) # {}
    /\ \E p \in Procs : /\ pc[p] = "done" /\ req[p].method = "GET"
                        /\ req[p].user = "bob" /\ req[p].slug = "c"
                        /\ out[p] = "RedirectCollection"

\* The final votes of a pair when the requests in ps run one at a time
RECURSIVE SerialFinals(_, _)
SerialFinals(state, ps) ==
    IF ps = {} THEN {state}
    ELSE UNION { SerialFinals(Transition(state, req[p].direction), ps \ {p})
                 : p \in ps }

\* C10: when all requests are answered, the vote of each pair is what the
\* same requests give when run one at a time in some order.
C10_Serializable ==
    (\A p \in Procs : pc[p] = "done") =>
        \A u \in Users, k \in Keys :
            /\ Cardinality(Rows(votes, u, k)) <= 1
            /\ VoteState(votes, u, k) \in
                  SerialFinals(VoteState(votes0, u, k),
                               {p \in Procs : /\ Effective(req[p])
                                              /\ req[p].user = u
                                              /\ Target(req[p]) = k})


(***************************************************************************)
(* Properties of the handlers that alter or show a collection              *)
(***************************************************************************)
Mutators ==
    {"collection_alter", "ajax_collection_alter", "edit", "edit_addons",
     "edit_contributors", "edit_privacy", "delete"}

PostOnly == {"collection_alter", "ajax_collection_alter"}

\* Logged in, and neither the author, a contributor nor an administrator
Stranger(user, key) ==
    /\ user # Anon
    /\ user \notin Admins
    /\ user # key[1]
    /\ user \notin colls[key].users

\* C3: a logged-in requester who is neither the owner, a contributor nor an
\* administrator is answered Forbidden by every mutating request on the
\* collection (a GET to the two POST-only routes is turned away as "method
\* not allowed" before the collection is looked at), and the collections and
\* the votes are as before.
C3_StrangerForbidden ==
    [][ (/\ last'.handler \in Mutators
         /\ last'.coll # NoColl
         /\ Stranger(last'.user, last'.coll)) =>
            /\ colls' = colls
            /\ votes' = votes
            /\ last'.resp = IF last'.handler \in PostOnly
                               /\ last'.method # "POST"
                            THEN "MethodNotAllowed" ELSE "Forbidden"
      ]_vars

\* C3 witness: bob, a stranger to the collection, tried to add an add-on
C3_Witness ==
    /\ last.handler = "collection_alter" /\ last.method = "POST"
    /\ last.user = "bob" /\ last.coll # NoColl
    /\ Stranger(last.user, last.coll)
    /\ last.resp = "Forbidden"

\* C4: a collection disappears exactly when the request is a delete POST
\* that passes the owner-level check with sure = '1', and that request is
\* answered with a redirect to the owner's listing.
C4_DeleteIff ==
    [][ \A k \in Keys :
          LET asked == /\ last'.handler = "delete"
                       /\ last'.coll = k
                       /\ last'.method = "POST"
                       /\ check_collection_ownership(last'.user, k, TRUE)
                       /\ last'.sure = "1"
          IN /\ (colls[k] # Nil /\ colls'[k] = Nil) <=> asked
             /\ asked => last'.resp = "RedirectUserListing"
             /\ (last'.handler = "delete" /\ last'.coll = k /\ ~asked) =>
                   last'.resp # "RedirectUserListing"
      ]_vars

\* C4 witness: the author confirmed and the collection is gone
C4_Witness ==
    /\ last.handler = "delete" /\ last.method = "POST" /\ last.sure = "1"
    /\ last.user = last.coll[1]
    /\ last.resp = "RedirectUserListing"
    /\ colls[last.coll] = Nil

\* C5: a delete POST by the owner without sure = '1' (absent, or another
\* value) is answered with a redirect to the collection's page and keeps
\* the collection.
C5_UnsureRedirects ==
    (/\ last.handler = "delete" /\ last.method = "POST"
     /\ last.coll # NoColl /\ last.user = last.coll[1]
     /\ last.sure # "1") =>
        /\ last.resp = "RedirectCollection"
        /\ colls[last.coll] # Nil

Kind(events, kind) == {i \in DOMAIN events : events[i][1] = kind}

NItems == 2
MaxRank == 1
Items == 1..NItems
Ranks == 0..MaxRank

\* request.APP.id, and the application a collection is scoped to
APP == "firefox"
Applications == {"firefox", "thunderbird", "none"}

ItemRecords ==
    [type : {COLLECTION_NORMAL, COLLECTION_FEATURED},
     weekly_subscribers : Ranks, rating : Ranks, created : Ranks,
     listed : BOOLEAN, application : Applications]

\* CollectionFilter.opts
opts == {"featured", "popular", "rating", "created"}

\* The sort parameter of the query string, "absent" when there is none
SortParams == opts \cup {"followers", "bogus", "absent"}

\* BaseFilter.options: the requested key when it is one of opts, else the
\* default
options(sort, default) == IF sort \in opts THEN sort ELSE default

\* The orders a query without order_by may return the rows of ids in
Orderings(ids) ==
    {s \in [1..Cardinality(ids) -> ids] :
        \A i, j \in DOMAIN s : i # j => s[i] # s[j]}

\* qs.order_by('-<column>'): ties come in any order
order_by_desc(ids, column) ==
    {s \in Orderings(ids) :
        \A i, j \in DOMAIN s :
            i < j => base[s[i]][column] >= base[s[j]][column]}

\* CollectionFilter.filter(field) over the queryset ids
filter(field, ids) ==
    IF field = "featured"
    THEN Orderings({i \in ids : base[i].type = COLLECTION_FEATURED})
    ELSE IF field = "followers"
    THEN order_by_desc(ids, "weekly_subscribers")
    ELSE IF field = "rating"
    THEN order_by_desc(ids, "rating")
    ELSE order_by_desc(ids, "created")

\* Collection.objects.listed() narrowed to the request's application
listing_base ==
    {i \in Items : /\ base[i].listed
                   /\ base[i].application \in {APP, "none"}}

collection_listing ==
    /\ \E sort \in SortParams :
          \E qs \in filter(options(sort, "popular"), listing_base) :
              listing' = [sort |-> sort,
                          field |-> options(sort, "popular"),
                          qs |-> qs]
    /\ UNCHANGED <<colls, last, votes, votes0, nextPk, pc, req, cv, out,
                   base>>

InitFilter ==
    /\ base \in [Items -> ItemRecords]
    /\ listing = [sort |-> "absent", field |-> "none", qs |-> << >>]
    /\ colls = [k \in Keys |-> Nil]
    /\ last = NoRequest
    /\ votes = {} /\ votes0 = {} /\ nextPk = 1
    /\ pc = Idle /\ req = Idle /\ cv = Idle /\ out = Idle

NextFilter == collection_listing

SpecFilter == InitFilter /\ [][NextFilter]_vars

Range(s) == {s[i] : i \in DOMAIN s}

SortedDesc(s, column) ==
    \A i, j \in DOMAIN s :
        i < j => base[s[i]][column] >= base[s[j]][column]

\* C8: the listing under 'featured' holds exactly the featured collections;
\* under 'popular', the default, the collections come by descending
\* subscriber count; under 'rating' by descending rating; under 'created'
\* by descending creation time.
C8_SortKeys ==
    listing.field # "none" =>
        /\ listing.field = "featured" =>
              Range(listing.qs) =
                 {i \in listing_base : base[i].type = COLLECTION_FEATURED}
        /\ listing.field # "featured" => Range(listing.qs) = listing_base
        /\ listing.field = "popular" =>
              SortedDesc(listing.qs, "weekly_subscribers")
        /\ listing.field = "rating" => SortedDesc(listing.qs, "rating")
        /\ listing.field = "created" => SortedDesc(listing.qs, "created")

====
